---- MODULE Spec2Model ----
(***************************************************************************)
(* Model of PyCubaX (src/src/pycuba/__init__.py): the module              *)
(* initialisation that sets CUBACORES and loads libcuba, and the four      *)
(* routine wrappers Vegas, Suave, Divonne and Cuhre, each of which builds  *)
(* the ctypes argument list, calls the native entry point (which calls the *)
(* integrand trampoline back) and unpacks the output buffers.              *)
(***************************************************************************)
EXTENDS Integers, Sequences, FiniteSets, TLC

VARIABLES
    pc,                     \* position of the module initialisation
    platform,               \* platform.system()
    environ,                \* os.environ, the two variables the module reads/writes
    sysHas,                 \* the system search path resolves _libcuba_file
    loadable,               \* the file paths that cdll.LoadLibrary can open
    libcuba,                \* the module global libcuba
    libcuba_source,         \* the module global _libcuba_source
    libcuba_path_explicit,  \* the module global _libcuba_path_explicit
    loadLog,                \* the names handed to cdll.LoadLibrary, in order
    raised,                 \* the exception the module initialisation raised
    phase,                  \* position of the current routine call
    req,                    \* the keyword arguments of the current routine call
    nativeArgs,             \* the argument list handed to the native entry point
    ninvoke,                \* integrand invocations made by native code in this call
    statuses,               \* the status native code received from each invocation
    unraisable,             \* exceptions handed to sys.unraisablehook in this call
    buffers,                \* the output cells native code writes (by reference)
    outcome,                \* how the routine call ended: returned dict or raised
    nativeCalled,           \* this call reached the native entry point
    trampolines             \* CFUNCTYPE objects built by this call

loaderVars == <<pc, platform, environ, sysHas, loadable, libcuba, libcuba_source,
                libcuba_path_explicit, loadLog, raised>>
callVars == <<phase, req, nativeArgs, ninvoke, statuses, unraisable, buffers,
              outcome, nativeCalled, trampolines>>
vars == <<pc, platform, environ, sysHas, loadable, libcuba, libcuba_source,
          libcuba_path_explicit, loadLog, raised,
          phase, req, nativeArgs, ninvoke, statuses, unraisable, buffers,
          outcome, nativeCalled, trampolines>>

(***************************************************************************)
(* Bounds                                                                  *)
(***************************************************************************)
MaxDim == 2
MaxComp == 2
MaxInvoke == 3
MaxGiven == 4

(***************************************************************************)
(* Python values                                                           *)
(***************************************************************************)
None == [k |-> "None"]
PyInt(n) == [k |-> "int", v |-> n]
PyStr(s) == [k |-> "str", s |-> s]

\* environment values: unset, or a string
Unset == [k |-> "unset"]

\* the paths of the file system the loader can be pointed at
RepoDir == "<module_dir>/../../dist/"
OverridePath == "/opt/cuba/libcuba.so"

(***************************************************************************)
(* Module initialisation: lines 65-105                                     *)
(***************************************************************************)

\* os.getenv(name, default)
getenv(env, name, default) ==
    IF env[name] = Unset THEN default ELSE env[name].s

\* variant: the assignment of line 68 left out
SetCubaCores_skipped(env) == env

\* line 68: os.environ['CUBACORES'] = '0'
SetCubaCores(env) == [env EXCEPT !["CUBACORES"] = PyStr("0")]

\* lines 74-79
lib_suffix(sys) ==
    IF sys = "Darwin" THEN ".dylib"
    ELSE IF sys = "Linux" THEN ".so"
    ELSE "unsupported"

\* line 81
libcuba_file(sys) == "libcuba" \o lib_suffix(sys)

\* line 82
libcuba_path_repo(sys) == RepoDir \o libcuba_file(sys)

\* variant: LIBCUBA ignored, the install-relative path always used
ExplicitPath_repoOnly(env, sys) == libcuba_path_repo(sys)

\* line 83: the override when LIBCUBA is set, the install-relative path otherwise
ExplicitPath(env, sys) == getenv(env, "LIBCUBA", libcuba_path_repo(sys))

\* cdll.LoadLibrary(name): a CDLL whose _name is name
CDLL(name) == [k |-> "CDLL", name |-> name]

\* variant: the message names the file only
LoadErrorMessage_noPath(file, explicit) ==
    << "Could not load ", file, " from system search paths." >>

\* lines 100-105: the text of the OSError, as the pieces the f-string joins
LoadErrorMessage(file, explicit) ==
    << "Could not load ", file,
       " from system search paths or the explicit path: ", explicit,
       ". Please set the 'LIBCUBA' environment variable to the correct path." >>

OSError(msg) == [k |-> "OSError", msg |-> msg]

Init ==
    /\ pc = "start"
    /\ platform \in {"Linux", "Darwin", "Windows"}
    /\ environ \in {[CUBACORES |-> c, LIBCUBA |-> l] :
                        c \in {Unset, PyStr("0"), PyStr("4")},
                        l \in {Unset, PyStr(OverridePath)}}
    /\ sysHas \in BOOLEAN
    /\ loadable \in SUBSET {libcuba_path_repo(platform), OverridePath}
    /\ libcuba = None
    /\ libcuba_source = ""
    /\ libcuba_path_explicit = ""
    /\ loadLog = << >>
    /\ raised = None
    /\ phase = "idle"
    /\ req = None
    /\ nativeArgs = << >>
    /\ ninvoke = 0
    /\ statuses = << >>
    /\ unraisable = 0
    /\ buffers = None
    /\ outcome = None
    /\ nativeCalled = FALSE
    /\ trampolines = 0

\* line 68
DisableCores ==
    /\ pc = "start"
    /\ environ' = SetCubaCores(environ)
    /\ pc' = "cores_set"
    /\ UNCHANGED <<platform, sysHas, loadable, libcuba, libcuba_source,
                   libcuba_path_explicit, loadLog, raised>>
    /\ UNCHANGED callVars

\* lines 71-87
ResolvePaths ==
    /\ pc = "cores_set"
    /\ IF platform \in {"Darwin", "Linux"}
       THEN /\ libcuba_path_explicit' = ExplicitPath(environ, platform)
            /\ pc' = "paths"
            /\ raised' = raised
       ELSE /\ raised' = OSError(<< "Unsupported OS: ", platform >>)
            /\ pc' = "failed"
            /\ libcuba_path_explicit' = libcuba_path_explicit
    /\ UNCHANGED <<platform, environ, sysHas, loadable, libcuba, libcuba_source,
                   loadLog>>
    /\ UNCHANGED callVars

\* lines 90-94: load from the system's search paths
LoadSystem ==
    /\ pc = "paths"
    /\ loadLog' = Append(loadLog, libcuba_file(platform))
    /\ IF sysHas
       THEN /\ libcuba' = CDLL(libcuba_file(platform))
            /\ libcuba_source' = libcuba_file(platform) \o " (system)"
            /\ pc' = "ready"
       ELSE /\ pc' = "system_failed"
            /\ UNCHANGED <<libcuba, libcuba_source>>
    /\ UNCHANGED <<platform, environ, sysHas, loadable, libcuba_path_explicit,
                   raised>>
    /\ UNCHANGED callVars

\* lines 95-105: load from the explicit path, or raise
LoadExplicit ==
    /\ pc = "system_failed"
    /\ loadLog' = Append(loadLog, libcuba_path_explicit)
    /\ IF libcuba_path_explicit \in loadable
       THEN /\ libcuba' = CDLL(libcuba_path_explicit)
            /\ libcuba_source' = libcuba_path_explicit
            /\ pc' = "ready"
            /\ raised' = raised
       ELSE /\ raised' = OSError(LoadErrorMessage(libcuba_file(platform),
                                                  libcuba_path_explicit))
            /\ pc' = "failed"
            /\ UNCHANGED <<libcuba, libcuba_source>>
    /\ UNCHANGED <<platform, environ, sysHas, loadable, libcuba_path_explicit>>
    /\ UNCHANGED callVars

(***************************************************************************)
(* Global definitions: lines 112-159                                       *)
(***************************************************************************)

\* line 117: NULL = POINTER(c_int)()
NULL == [k |-> "NULL"]

\* lines 145-159: the default parameters (floats by their literal)
EPSREL == "1.e-3"
EPSABS == "1.e-12"
MINEVAL == 0
MAXEVAL == 50000
STATEFILE == NULL
SPIN == NULL
NSTART == 1000
NINCREASE == 500
NBATCH == 1000
GRIDNO == 0
NNEW == 1000
NMIN == 2
FLATNESS == "50."

\* ctypes values handed to a foreign function
PyFloat(x) == [k |-> "float", v |-> x]
PyList(items) == [k |-> "list", items |-> items]
c_int(n) == [k |-> "c_int", v |-> n]
c_double(lit) == [k |-> "c_double", d |-> lit]
byref(cell) == [k |-> "byref", cell |-> cell]
Pointer(name) == [k |-> "pointer", to |-> name]
Raise(exc, line) == [k |-> "raise", exc |-> exc, line |-> line]
Return(value) == [k |-> "return", value |-> value]

\* a host callable: a Python function that raises on its raiseAt-th call
\* (0: never); a pre-bound integrand is a _CFuncPtr already
HostFunction(raiseAt) == [k |-> "function", raiseAt |-> raiseAt]
RawCallback == [k |-> "CFuncPtr", proto |-> "native"]

\* lines 120-127: _integrand_type(f); lines 129-135: _peakfinder_type(f)
integrand_type(f) == [k |-> "CFuncPtr", proto |-> "_integrand_type", wraps |-> f]
peakfinder_type(f) == [k |-> "CFuncPtr", proto |-> "_peakfinder_type", wraps |-> f]

\* isinstance(x, _CFuncPtr)
IsCFuncPtr(x) == x.k = "CFuncPtr"

(***************************************************************************)
(* Wrappers: lines 166-436                                                 *)
(***************************************************************************)

\* lines 166-168
wrap_integrand(integrand) ==
    IF IsCFuncPtr(integrand) THEN integrand ELSE integrand_type(integrand)

\* the CFUNCTYPE objects _wrap_integrand builds for one call
WrapCount(integrand) == IF IsCFuncPtr(integrand) THEN 0 ELSE 1

\* seed = seed or 0   (lines 200, 260, 329)
SeedOrZero(seed) ==
    IF seed = None \/ seed = PyInt(0) THEN PyInt(0) ELSE seed

\* ARR = c_double * n; ARR(): n zeroed doubles (lines 195-198)
NewArray(name, n) == [k |-> "array", name |-> name, len |-> n]

\* ARR(*args) for ARR = c_double * n: more initialisers than cells is an
\* IndexError, an initialiser that is not a number a TypeError, and the
\* cells left over stay zero
ArrayInit(n, args) ==
    IF Len(args) > n THEN Raise("IndexError", 339)
    ELSE IF \E i \in 1..Len(args) : args[i].k \notin {"float", "int"}
    THEN Raise("TypeError", 339)
    ELSE [k |-> "array", name |-> "xgiven", len |-> n,
          items |-> [i \in 1..n |-> IF i <= Len(args) THEN args[i].v ELSE 0]]

\* lines 202-214
VegasArgs(r) ==
    << PyInt(r.ndim), PyInt(r.ncomp),
       wrap_integrand(r.integrand), r.userdata, c_int(1),
       c_double(EPSREL), c_double(EPSABS),
       PyInt(0),
       SeedOrZero(r.seed),
       PyInt(MINEVAL), PyInt(MAXEVAL),
       PyInt(NSTART), PyInt(NINCREASE), PyInt(NBATCH),
       PyInt(GRIDNO),
       r.statefile, SPIN,
       byref("neval"), byref("fail"),
       NewArray("integral", r.ncomp), NewArray("error", r.ncomp),
       NewArray("prob", r.ncomp) >>

\* lines 262-274
SuaveArgs(r) ==
    << PyInt(r.ndim), PyInt(r.ncomp),
       wrap_integrand(r.integrand), r.userdata, c_int(1),
       c_double(EPSREL), c_double(EPSABS),
       PyInt(0),
       SeedOrZero(r.seed),
       PyInt(MINEVAL), PyInt(MAXEVAL),
       PyInt(NNEW), PyInt(NMIN),
       c_double(FLATNESS),
       r.statefile, SPIN,
       byref("nregions"), byref("neval"), byref("fail"),
       NewArray("integral", r.ncomp), NewArray("error", r.ncomp),
       NewArray("prob", r.ncomp) >>

\* the mandatory Divonne parameters, at the values demo() passes (lines 494-500)
KEY1 == 47
KEY2 == 1
KEY3 == 1
MAXPASS == 5
BORDER == "0."
MAXCHISQ == "10."
MINDEVIATION == ".25"

\* lines 331-332
DivonneLdxgiven(r) ==
    IF r.ldxgiven = None THEN PyInt(r.ndim) ELSE r.ldxgiven

\* lines 334-338: ngiven
DivonneNgiven(r) ==
    IF r.xgiven = None THEN 0 ELSE Len(r.xgiven.items)

\* lines 334-339: xgiven; ARR is c_double * ncomp and the list is its one
\* initialiser
DivonneXgiven(r) ==
    IF r.xgiven = None THEN NULL ELSE ArrayInit(r.ncomp, << r.xgiven >>)

\* lines 341-344
DivonnePeakfinder(r) ==
    IF r.peakfinder = None THEN NULL ELSE peakfinder_type(r.peakfinder)

\* lines 346-364
DivonneArgs(r) ==
    << PyInt(r.ndim), PyInt(r.ncomp),
       wrap_integrand(r.integrand), r.userdata, c_int(1),
       c_double(EPSREL), c_double(EPSABS),
       PyInt(0),
       SeedOrZero(r.seed),
       PyInt(MINEVAL), PyInt(MAXEVAL),
       PyInt(KEY1), PyInt(KEY2), PyInt(KEY3),
       PyInt(MAXPASS),
       c_double(BORDER),
       c_double(MAXCHISQ),
       c_double(MINDEVIATION),
       PyInt(DivonneNgiven(r)), DivonneLdxgiven(r), DivonneXgiven(r),
       PyInt(0),
       DivonnePeakfinder(r),
       r.statefile, SPIN,
       byref("nregions"), byref("neval"), byref("fail"),
       NewArray("integral", r.ncomp), NewArray("error", r.ncomp),
       NewArray("prob", r.ncomp) >>

\* lines 411-421
CuhreArgs(r) ==
    << PyInt(r.ndim), PyInt(r.ncomp),
       wrap_integrand(r.integrand), r.userdata, c_int(1),
       c_double(EPSREL), c_double(EPSABS),
       PyInt(0),
       PyInt(MINEVAL), PyInt(MAXEVAL),
       PyInt(0),
       r.statefile, SPIN,
       byref("nregions"), byref("neval"), byref("fail"),
       NewArray("integral", r.ncomp), NewArray("error", r.ncomp),
       NewArray("prob", r.ncomp) >>

\* lines 191-198 (and 250-258, 319-327, 399-407): the cells a routine
\* allocates before the call, all zero
FreshBuffers(ncomp) ==
    [neval |-> 0, fail |-> 0, comp |-> 0, nregions |-> 0,
     integral |-> [i \in 1..ncomp |-> 0],
     error |-> [i \in 1..ncomp |-> 0],
     prob |-> [i \in 1..ncomp |-> 0]]

\* variant: error and prob read from each other's buffer
Results_swapped(b, ncomp) ==
    [i \in 1..ncomp |->
        [integral |-> b.integral[i], error |-> b.prob[i], prob |-> b.error[i]]]

\* lines 220-227: one record per icomp in range(ncomp)
Results(b, ncomp) ==
    [i \in 1..ncomp |->
        [integral |-> b.integral[i], error |-> b.error[i], prob |-> b.prob[i]]]

\* lines 216-228
VegasResult(b, ncomp) ==
    [neval |-> b.neval, fail |-> b.fail, comp |-> b.comp,
     results |-> Results(b, ncomp)]

\* lines 276-289, 366-379, 423-436
RegionResult(b, ncomp) ==
    [neval |-> b.neval, fail |-> b.fail, comp |-> b.comp,
     nregions |-> b.nregions,
     results |-> Results(b, ncomp)]

\* variant: a nonzero fail turned into an exception
Unpack_raiseOnFail(routine, b, ncomp) ==
    IF b.fail # 0 THEN Raise("RuntimeError", 216)
    ELSE IF routine = "Vegas" THEN Return(VegasResult(b, ncomp))
    ELSE Return(RegionResult(b, ncomp))

\* lines 216-228, 276-289, 366-379, 423-436: the dict of the routine
Unpack(routine, b, ncomp) ==
    IF routine = "Vegas" THEN Return(VegasResult(b, ncomp))
    ELSE Return(RegionResult(b, ncomp))

(***************************************************************************)
(* Requests                                                                *)
(***************************************************************************)
Integrands == {HostFunction(n) : n \in 0..MaxInvoke} \cup {RawCallback}
Pointers(name) == {NULL, Pointer(name)}

\* starting points: the list [1.0, 2.0, ..., n]
XgivenList(n) == PyList([i \in 1..n |-> PyFloat(i)])

CommonRequests(routine, seeds) ==
    [routine : {routine}, integrand : Integrands,
     ndim : 1..MaxDim, ncomp : 1..MaxComp,
     userdata : Pointers("userdata"), statefile : Pointers("statefile"),
     seed : seeds,
     ldxgiven : {None}, xgiven : {None}, peakfinder : {None}]

VegasRequests == CommonRequests("Vegas", {None, PyInt(7)})
SuaveRequests == CommonRequests("Suave", {None, PyInt(7)})
CuhreRequests == CommonRequests("Cuhre", {None})
DivonneRequests ==
    [routine : {"Divonne"}, integrand : Integrands,
     ndim : 1..MaxDim, ncomp : 1..MaxComp,
     userdata : Pointers("userdata"), statefile : Pointers("statefile"),
     seed : {None},
     ldxgiven : {None} \cup {PyInt(n) : n \in 1..MaxDim},
     xgiven : {None} \cup {XgivenList(n) : n \in 0..MaxGiven},
     peakfinder : {None, HostFunction(0)}]

(***************************************************************************)
(* Routine calls                                                           *)
(***************************************************************************)

\* the wrappers exist once the module has been imported
CanCall == pc = "ready" /\ phase = "idle"

\* the call into libcuba.<routine>(*args)
EnterNative(r, args, built) ==
    /\ req' = r
    /\ nativeArgs' = args
    /\ trampolines' = built
    /\ nativeCalled' = TRUE
    /\ phase' = "native"
    /\ ninvoke' = 0
    /\ statuses' = << >>
    /\ unraisable' = 0
    /\ buffers' = FreshBuffers(r.ncomp)
    /\ outcome' = None

\* an exception out of the wrapper before the native call
RaiseBeforeCall(r, exc, built) ==
    /\ req' = r
    /\ nativeArgs' = << >>
    /\ trampolines' = built
    /\ nativeCalled' = FALSE
    /\ phase' = "done"
    /\ ninvoke' = 0
    /\ statuses' = << >>
    /\ unraisable' = 0
    /\ buffers' = FreshBuffers(r.ncomp)
    /\ outcome' = exc

\* variant: the library resolved again on each call
Vegas_reload(r) ==
    /\ CanCall
    /\ EnterNative(r, VegasArgs(r), WrapCount(r.integrand))
    /\ libcuba' = CDLL(libcuba_path_explicit)
    /\ libcuba_source' = libcuba_path_explicit
    /\ loadLog' = Append(loadLog, libcuba_path_explicit)
    /\ UNCHANGED <<pc, platform, environ, sysHas, loadable,
                   libcuba_path_explicit, raised>>

\* lines 171-214
Vegas(r) ==
    /\ CanCall
    /\ EnterNative(r, VegasArgs(r), WrapCount(r.integrand))
    /\ UNCHANGED loaderVars

\* lines 231-274
Suave(r) ==
    /\ CanCall
    /\ EnterNative(r, SuaveArgs(r), WrapCount(r.integrand))
    /\ UNCHANGED loaderVars

\* lines 292-364
Divonne(r) ==
    /\ CanCall
    /\ IF DivonneXgiven(r).k = "raise"
       THEN RaiseBeforeCall(r, DivonneXgiven(r), 0)
       ELSE EnterNative(r, DivonneArgs(r),
                        (IF r.peakfinder = None THEN 0 ELSE 1)
                            + WrapCount(r.integrand))
    /\ UNCHANGED loaderVars

\* lines 382-421
Cuhre(r) ==
    /\ CanCall
    /\ EnterNative(r, CuhreArgs(r), WrapCount(r.integrand))
    /\ UNCHANGED loaderVars

\* the integrand argument of the call in progress
Callback == nativeArgs[3]

\* the n-th invocation raises inside the host function
RaisesAt(cb, n) ==
    /\ cb.proto = "_integrand_type"
    /\ cb.wraps.raiseAt = n

\* What native code reads as the status of an invocation whose Python
\* function raised: ctypes hands the exception to sys.unraisablehook and
\* leaves the result slot unwritten, so the value is whatever the slot held
\* (0 or not).
StatusOnRaise == {0, 1}

\* native code invokes the integrand once (lines 120-127, 166-168)
InvokeIntegrand ==
    /\ phase = "native"
    /\ ninvoke < MaxInvoke
    /\ ninvoke' = ninvoke + 1
    /\ IF RaisesAt(Callback, ninvoke + 1)
       THEN /\ \E s \in StatusOnRaise : statuses' = Append(statuses, s)
            /\ unraisable' = unraisable + 1
       ELSE /\ statuses' = Append(statuses, 0)
            /\ unraisable' = unraisable
    /\ UNCHANGED <<phase, req, nativeArgs, buffers, outcome, nativeCalled,
                   trampolines>>
    /\ UNCHANGED loaderVars

\* what native code writes through byref(neval), byref(fail),
\* byref(nregions) and into integral, error, prob before it returns
NativeOutputs(r, n) ==
    {[neval |-> n, fail |-> f, comp |-> 0,
      nregions |-> IF r.routine = "Vegas" THEN 0 ELSE 1,
      integral |-> [i \in 1..r.ncomp |-> 100 + 10 * i + o],
      error |-> [i \in 1..r.ncomp |-> 200 + 10 * i + o],
      prob |-> [i \in 1..r.ncomp |-> 300 + 10 * i + o]] :
        f \in {-1, 0, 1}, o \in {0, 1}}

\* the native call returns and the wrapper builds its dict
\* (lines 216-228, 276-289, 366-379, 423-436)
NativeReturn ==
    /\ phase = "native"
    /\ \E b \in NativeOutputs(req, ninvoke) :
        /\ buffers' = b
        /\ outcome' = Unpack(req.routine, b, req.ncomp)
    /\ phase' = "done"
    /\ UNCHANGED <<req, nativeArgs, ninvoke, statuses, unraisable,
                   nativeCalled, trampolines>>
    /\ UNCHANGED loaderVars

\* the wrapper's frame is gone: the caller holds the dict (or handles the
\* exception) and the request, cells and trampolines of the call are dropped
CallerResumes ==
    /\ phase = "done"
    /\ phase' = "idle"
    /\ req' = None
    /\ nativeArgs' = << >>
    /\ ninvoke' = 0
    /\ statuses' = << >>
    /\ unraisable' = 0
    /\ buffers' = None
    /\ outcome' = None
    /\ nativeCalled' = FALSE
    /\ trampolines' = 0
    /\ UNCHANGED loaderVars

\* the requests of demo(): one dimension-1, one-component call per routine
\* with default pointers, over every integrand and starting-points list
Plain(r) ==
    /\ r.ndim = 1
    /\ r.ncomp = 1
    /\ r.userdata = NULL
    /\ r.statefile = NULL
    /\ r.seed = None
    /\ r.ldxgiven = None
    /\ r.peakfinder = None

\* every installation, plain requests
Next ==
    \/ DisableCores
    \/ ResolvePaths
    \/ LoadSystem
    \/ LoadExplicit
    \/ CanCall /\ \E r \in {q \in VegasRequests : Plain(q)} : Vegas(r)
    \/ CanCall /\ \E r \in {q \in SuaveRequests : Plain(q)} : Suave(r)
    \/ CanCall /\ \E r \in {q \in DivonneRequests : Plain(q)} : Divonne(r)
    \/ CanCall /\ \E r \in {q \in CuhreRequests : Plain(q)} : Cuhre(r)
    \/ InvokeIntegrand
    \/ NativeReturn
    \/ CallerResumes

Spec == Init /\ [][Next]_vars

\* one installation (Linux, libcuba on the system search path), every request
InitCalls ==
    /\ Init
    /\ platform = "Linux"
    /\ environ["LIBCUBA"] = Unset
    /\ sysHas
    /\ loadable = {}

NextCalls ==
    \/ DisableCores
    \/ ResolvePaths
    \/ LoadSystem
    \/ CanCall /\ \E r \in VegasRequests : Vegas(r)
    \/ CanCall /\ \E r \in SuaveRequests : Suave(r)
    \/ CanCall /\ \E r \in DivonneRequests : Divonne(r)
    \/ CanCall /\ \E r \in CuhreRequests : Cuhre(r)
    \/ InvokeIntegrand
    \/ NativeReturn
    \/ CallerResumes

SpecCalls == InitCalls /\ [][NextCalls]_vars

(***************************************************************************)
(* Properties                                                              *)
(***************************************************************************)

\* the initialisation got as far as a load attempt and that attempt failed
LoadFailed == pc = "failed" /\ loadLog # << >>

OverrideSet == environ["LIBCUBA"] # Unset
Override == environ["LIBCUBA"].s
RepoPath == libcuba_path_repo(platform)
InitDone == pc \in {"ready", "failed"}

\* C1: when a host integrand raises during the native call, native code is
\* handed a nonzero status for that invocation and the routine raises a
\* CallbackError once the native call has returned, instead of returning a
\* result record.
C1_CallbackErrorSurfaced ==
    (phase = "done" /\ unraisable > 0) =>
        /\ outcome.k = "raise"
        /\ outcome.exc = "CallbackError"
        /\ \A i \in 1..Len(statuses) :
              RaisesAt(Callback, i) => statuses[i] # 0

\* C2: from the first attempt to load the library onward, and after any
\* sequence of routine calls, CUBACORES equals '0', whatever it was before.
C2_CoresZeroFromFirstLoad ==
    (pc \in {"paths", "system_failed", "ready"} \/ loadLog # << >>) =>
        environ["CUBACORES"] = PyStr("0")

C2_Witness ==
    /\ loadLog # << >>
    /\ phase = "done"
    /\ nativeCalled

\* C3 (as stated): three locations are tried, system search path, override,
\* install-relative path; resolution fails only if all three fail, and a
\* set override that cannot be loaded falls through to the install-relative
\* library.
C3_ThreeLocations ==
    /\ LoadFailed =>
          /\ ~sysHas
          /\ OverrideSet => Override \notin loadable
          /\ RepoPath \notin loadable
    /\ (InitDone /\ loadLog # << >> /\ ~sysHas /\ OverrideSet
           /\ Override \notin loadable /\ RepoPath \in loadable) =>
          libcuba = CDLL(RepoPath)

\* C3 (amended): two locations are tried, the system search path and then
\* one explicit path, which is the override when LIBCUBA is set and the
\* install-relative path only when it is not; the first that loads is bound,
\* and resolution fails exactly when both fail.
C3_TwoLocations ==
    LET explicit == IF OverrideSet THEN Override ELSE RepoPath
        tried == << libcuba_file(platform), explicit >>
    IN  /\ Len(loadLog) <= 2
        /\ \A i \in 1..Len(loadLog) : loadLog[i] = tried[i]
        /\ (InitDone /\ loadLog # << >>) =>
              IF sysHas
              THEN pc = "ready" /\ Len(loadLog) = 1 /\ libcuba = CDLL(tried[1])
              ELSE IF explicit \in loadable
              THEN pc = "ready" /\ Len(loadLog) = 2 /\ libcuba = CDLL(explicit)
              ELSE pc = "failed" /\ Len(loadLog) = 2 /\ libcuba = None

C3_Witness ==
    /\ pc = "ready"
    /\ OverrideSet
    /\ Len(loadLog) = 2
    /\ libcuba = CDLL(Override)

\* C4: when the override names a path that cannot be loaded and the system
\* search path has no match, initialisation fails with a load error whose
\* message contains the override path; libcuba stays None and no routine is
\* ever invoked.
C4_LoadErrorNamesOverride ==
    (InitDone /\ loadLog # << >> /\ OverrideSet /\ ~sysHas
        /\ Override \notin loadable) =>
        /\ pc = "failed"
        /\ raised.k = "OSError"
        /\ \E i \in 1..Len(raised.msg) : raised.msg[i] = Override
        /\ libcuba = None
        /\ libcuba_source = ""
        /\ phase = "idle"
        /\ ~nativeCalled

C4_Witness ==
    /\ LoadFailed
    /\ OverrideSet
    /\ Len(loadLog) = 2
    /\ raised.k = "OSError"

\* a Divonne request whose starting points do not split into rows of ndim,
\* or whose row length is below ndim
Malformed(r) ==
    /\ r.routine = "Divonne"
    /\ \/ r.xgiven # None /\ Len(r.xgiven.items) % r.ndim # 0
       \/ DivonneLdxgiven(r).v < r.ndim

\* C5: a malformed Divonne request is rejected with a ValidationError before
\* the native entry point is invoked and before any trampoline is built.
C5_MalformedRejected ==
    (phase \in {"native", "done"} /\ Malformed(req)) =>
        /\ outcome.k = "raise"
        /\ outcome.exc = "ValidationError"
        /\ ~nativeCalled
        /\ trampolines = 0

\* C6: Divonne passes ngiven = k and the k * ndim values in order when given
\* a list of k * ndim starting points (k >= 1), and ngiven = 0 without one.
C6_NgivenIsPointCount ==
    (phase = "done" /\ req.routine = "Divonne") =>
        IF req.xgiven = None
        THEN nativeCalled /\ nativeArgs[19] = PyInt(0)
        ELSE LET n == Len(req.xgiven.items)
             IN  (n >= req.ndim /\ n % req.ndim = 0 /\ ~Malformed(req)) =>
                    /\ nativeCalled
                    /\ nativeArgs[19] = PyInt(n \div req.ndim)
                    /\ nativeArgs[21].k = "array"
                    /\ \A i \in 1..n :
                          nativeArgs[21].items[i] = req.xgiven.items[i].v

\* C7: a returned dict has exactly ncomp result records and record i holds
\* integral[i], error[i] and prob[i] of the native output buffers.
C7_ResultsMatchBuffers ==
    (phase = "done" /\ outcome.k = "return") =>
        /\ DOMAIN outcome.value.results = 1..req.ncomp
        /\ \A i \in 1..req.ncomp :
              /\ outcome.value.results[i].integral = buffers.integral[i]
              /\ outcome.value.results[i].error = buffers.error[i]
              /\ outcome.value.results[i].prob = buffers.prob[i]

C7_Witness ==
    /\ phase = "done"
    /\ outcome.k = "return"
    /\ req.routine = "Cuhre"
    /\ req.ncomp >= 2
    /\ buffers.integral[2] # buffers.integral[1]

\* the length of each routine's argument list and the positions of its
\* optional pointer-valued fields
Arity(routine) ==
    IF routine \in {"Vegas", "Suave"} THEN 22
    ELSE IF routine = "Divonne" THEN 31 ELSE 19

StatefilePos(routine) ==
    IF routine = "Vegas" THEN 16
    ELSE IF routine = "Suave" THEN 15
    ELSE IF routine = "Divonne" THEN 24 ELSE 12

ArgumentListShape ==
    /\ Len(nativeArgs) = Arity(req.routine)
    /\ nativeArgs[4] = req.userdata
    /\ nativeArgs[StatefilePos(req.routine)] = req.statefile
    /\ req.routine = "Divonne" =>
          /\ nativeArgs[21] = NULL <=> req.xgiven = None
          /\ nativeArgs[23] = NULL <=> req.peakfinder = None
          /\ req.peakfinder # None =>
                nativeArgs[23] = peakfinder_type(req.peakfinder)

\* C8: for every combination of set and unset optional pointer-valued fields
\* (user data, state file, and for Divonne peak finder and starting points)
\* the native argument list has the routine's fixed length, with a null
\* pointer at the position of each unset field and the field at that same
\* position when it is set.
C8_FixedArityEveryCombination ==
    (phase = "done" /\ ~Malformed(req)) =>
        /\ nativeCalled
        /\ ArgumentListShape

\* the part of C8 that the calls which reach native code do satisfy
ArgumentListShapeWhenCalled ==
    nativeCalled => ArgumentListShape

\* C9: whatever fail value the native call writes, the routine returns
\* normally and the dict's fail field is that value, the other fields being
\* those of the cells.
C9_FailIsReturnedNotRaised ==
    (phase = "done" /\ nativeCalled) =>
        /\ outcome.k = "return"
        /\ outcome.value.fail = buffers.fail
        /\ outcome.value.neval = buffers.neval
        /\ outcome.value.comp = 0
        /\ DOMAIN outcome.value.results = 1..req.ncomp

C9_Witness ==
    /\ phase = "done"
    /\ nativeCalled
    /\ buffers.fail = -1
    /\ outcome.k = "return"

\* C10: once bound, the library handle and its recorded source never change
\* and no routine call runs library resolution again.
C10_HandleReadOnly ==
    [][pc = "ready" =>
          /\ pc' = "ready"
          /\ libcuba' = libcuba
          /\ libcuba_source' = libcuba_source
          /\ libcuba_path_explicit' = libcuba_path_explicit
          /\ loadLog' = loadLog]_vars

C10_Witness ==
    /\ pc = "ready"
    /\ phase = "done"
    /\ outcome.k = "return"
    /\ libcuba # None
====
